---- MODULE Spec2Model ----
(***************************************************************************)
(* Model of scripts/ebay_soccer_bulk_from_inventory.py: the comparable-    *)
(* price discovery engine (query tiers, price extraction, robust median,   *)
(* pricing rules, the tier loop of fetch_best_comps_for_card and the item  *)
(* loop of main).                                                          *)
(*                                                                         *)
(* Representation.  A Python str is a sequence of one-character strings,   *)
(* so that the regular expressions and clean() are computed character by   *)
(* character.  An Optional value is a sequence of length 0 (None) or 1.    *)
(* An amount of money is an integer number of half cents (Unit to the      *)
(* currency unit): the patterns admit exactly two fraction digits or none, *)
(* so every parsed float is a whole number of cents, and the median of an  *)
(* even number of them is a whole number of half cents.                    *)
(***************************************************************************)
EXTENDS Integers, Sequences, FiniteSets, TLC

VARIABLES
    pc,         \* position of the program
    cred,       \* os.getenv("SCRAPINGBEE_API_KEY") is set
    min_comps,  \* args.min_comps
    take_n,     \* args.take_n
    cards,      \* the inventory (load_inventory_tsv)
    i,          \* main: index of the current item, 1-based
    tiers,      \* fetch_best_comps_for_card: build_query_tiers(c)
    t,          \* number of tiers whose loop iteration has completed
    best,       \* the accumulator: None or (tier, count, median, url)
    stopped,    \* the loop was left by the break
    fetched,    \* the scrapingbee_get calls of the current item, and their outcome
    seen,       \* per tier processed for the current item: its outcome
    out_rows,   \* main: one result per finished item
    exc,        \* the exception that ended the run, "" if none
    text,       \* input of parse_money
    pm,         \* outcome of parse_money
    html,       \* input of extract_sold_prices
    prices,     \* outcome of extract_sold_prices
    card,       \* input of build_query_tiers
    qt,         \* outcome of build_query_tiers
    args,       \* arguments of the estimator or pricing rule called on its own
    ret         \* its outcome

vars == <<pc, cred, min_comps, take_n, cards, i, tiers, t, best, stopped,
          fetched, seen, out_rows, exc, text, pm, html, prices, card, qt,
          args, ret>>

None == <<>>
Some(v) == <<v>>

Min(S) == CHOOSE x \in S : \A y \in S : x <= y
Max(S) == CHOOSE x \in S : \A y \in S : x >= y

(***************************************************************************)
(* Character classes of the patterns.                                      *)
(***************************************************************************)
Digits == <<"0", "1", "2", "3", "4", "5", "6", "7", "8", "9">>

IsDigit(c) == \E k \in 1..10 : Digits[k] = c
DigitVal(c) == (CHOOSE k \in 1..10 : Digits[k] = c) - 1
IsSpace(c) == c \in {" ", "\t"}
IsSym(c) == c \in {"$", "GBP", "EUR"}
IsNumCh(c) == IsDigit(c) \/ c = ","

\* first index >= p of s whose character is not in class P (Len(s)+1 if none)
RunEnd(s, p, P(_)) ==
    Min({q \in p..(Len(s) + 1) : q = Len(s) + 1 \/ ~P(s[q])})

(***************************************************************************)
(* clean: re.sub(r"\s+", " ", s.strip())                                   *)
(***************************************************************************)
RECURSIVE Collapse(_)
Collapse(s) ==
    IF s = <<>> THEN <<>>
    ELSE IF IsSpace(Head(s))
         THEN <<" ">> \o Collapse(SubSeq(s, RunEnd(s, 1, IsSpace), Len(s)))
         ELSE <<Head(s)>> \o Collapse(Tail(s))

Strip(s) ==
    LET a == RunEnd(s, 1, IsSpace)
        nb == {q \in 1..Len(s) : ~IsSpace(s[q])}
    IN  IF nb = {} THEN <<>> ELSE SubSeq(s, a, Max(nb))

clean(s) == Collapse(Strip(s))

(***************************************************************************)
(* _money_re  [$GBP EUR]\s*([\d,]+(?:\.\d{2})?)  matched at position p.    *)
(* Every quantifier is greedy and nothing follows the group, so the match  *)
(* at p, when there is one, is the longest.  MoneyEnd is the index after   *)
(* the match, 0 when the pattern does not match at p.                      *)
(***************************************************************************)
MoneyNumStart(s, p) == RunEnd(s, p + 1, IsSpace)

\* q: the start of the group; r: the end of its run of digits and commas
MoneyEndFrom(s, q, r) ==
    IF r = q THEN 0
    ELSE IF /\ r + 2 <= Len(s)
            /\ s[r] = "."
            /\ IsDigit(s[r + 1])
            /\ IsDigit(s[r + 2])
         THEN r + 3
         ELSE r

MoneyEndAt(s, q) == MoneyEndFrom(s, q, RunEnd(s, q, IsNumCh))

MoneyEnd(s, p) ==
    IF p > Len(s) \/ p < 1 THEN 0
    ELSE IF ~IsSym(s[p]) THEN 0
    ELSE MoneyEndAt(s, MoneyNumStart(s, p))

\* m.group(1) of _money_re matched at p
MoneyGroup(s, p) == SubSeq(s, MoneyNumStart(s, p), MoneyEnd(s, p) - 1)

MinOrZero(S) == IF S = {} THEN 0 ELSE Min(S)

\* _money_re.search(s): the leftmost position with a match, 0 if none
MoneySearch(s) == MinOrZero({p \in 1..Len(s) : MoneyEnd(s, p) > 0})

(***************************************************************************)
(* _range_re  (amount)\s+to\s+(amount), re.I, matched at position p.       *)
(* After the first amount the pattern needs whitespace; a shorter first    *)
(* amount is followed by a digit, a comma or a point, so backtracking      *)
(* finds no other match.  RangeSecond is the start of group 2, 0 when the  *)
(* pattern does not match at p.                                            *)
(***************************************************************************)
\* b: the index after the whitespace that follows "to" at a2 - 2
RangeAmount2(s, a2, b) ==
    IF b = a2 THEN 0
    ELSE IF MoneyEnd(s, b) = 0 THEN 0 ELSE b

\* a: the index after the whitespace that follows the first amount, ended e1
RangeTo(s, e1, a) ==
    IF a = e1 \/ a + 1 > Len(s) THEN 0
    ELSE IF ~(s[a] \in {"t", "T"} /\ s[a + 1] \in {"o", "O"}) THEN 0
    ELSE RangeAmount2(s, a + 2, RunEnd(s, a + 2, IsSpace))

RangeAfter(s, e1) ==
    IF e1 = 0 THEN 0 ELSE RangeTo(s, e1, RunEnd(s, e1, IsSpace))

RangeSecond(s, p) == RangeAfter(s, MoneyEnd(s, p))

\* _range_re.search(s): the leftmost position with a match, 0 if none
RangeSearch(s) == MinOrZero({p \in 1..Len(s) : RangeSecond(s, p) > 0})

(***************************************************************************)
(* float(g.replace(",", "")) for a group g of _money_re.                   *)
(***************************************************************************)
RECURSIVE StripCommas(_)
StripCommas(g) ==
    IF g = <<>> THEN <<>>
    ELSE IF Head(g) = "," THEN StripCommas(Tail(g))
    ELSE <<Head(g)>> \o StripCommas(Tail(g))

RECURSIVE DigitsVal(_)
DigitsVal(d) ==
    IF d = <<>> THEN 0
    ELSE 10 * DigitsVal(SubSeq(d, 1, Len(d) - 1)) + DigitVal(d[Len(d)])

\* half cents to the currency unit
Unit == 2 * 100

\* the value of a string of digits with an optional ".dd"
AmountOf(n) ==
    LET dot == {q \in 1..Len(n) : n[q] = "."}
    IN  IF dot = {} THEN Unit * DigitsVal(n)
        ELSE LET d == Min(dot)
             IN  Unit * DigitsVal(SubSeq(n, 1, d - 1))
                   + 2 * DigitsVal(SubSeq(n, d + 1, Len(n)))

\* float("") raises ValueError; every other group is a valid float literal
ToFloat(g) ==
    LET n == StripCommas(g)
    IN  IF n = <<>> THEN [exc |-> "ValueError", ret |-> None]
        ELSE [exc |-> "", ret |-> Some(AmountOf(n))]

(***************************************************************************)
(* parse_money                                                             *)
(***************************************************************************)
\* "m = _money_re.search(x); if not m: return None; return float(...)"
ParseAt(x, m) ==
    IF m = 0 THEN [exc |-> "", ret |-> None] ELSE ToFloat(MoneyGroup(x, m))

ParseFirst(x) == ParseAt(x, MoneySearch(x))

\* pr: the match of _range_re in s; low = mrange.group(1)
ParseRangeOrMoney(s, pr) ==
    IF pr > 0 THEN ParseFirst(SubSeq(s, pr, MoneyEnd(s, pr) - 1))
    ELSE ParseFirst(s)

ParseCleaned(s) == ParseRangeOrMoney(s, RangeSearch(s))

parse_money(txt) ==
    IF txt = <<>> THEN [exc |-> "", ret |-> None]
    ELSE ParseCleaned(clean(txt))

(***************************************************************************)
(* extract_sold_prices.  The parsed page is the sequence of its elements   *)
(* in document order, each with its class attribute and its text.          *)
(***************************************************************************)
\* soup.select(".s-item__price")
IsSItemPrice(el) == el.cls = "s-item__price"
\* soup.select("[class*='price']"): the class attribute contains "price"
ClassHasPrice(el) == el.cls \in {"s-item__price", "x-price", "price"}

\* el.get_text(" ", strip=True) of an element with one text node
GetText(el) == Strip(el.txt)

SelectTexts(h, Sel(_)) ==
    LET els == SelectSeq(h, Sel)
    IN  [k \in 1..Len(els) |-> GetText(els[k])]

\* the loop "p = parse_money(...); if p is not None: prices.append(p)"
RECURSIVE ParseAll(_)
ParseJoin(p, r) ==
    IF r.exc # "" THEN r ELSE [exc |-> "", ret |-> p.ret \o r.ret]

ParseCons(p, rest) ==
    IF p.exc # "" THEN [exc |-> p.exc, ret |-> <<>>]
    ELSE ParseJoin(p, ParseAll(rest))

ParseAll(ts) ==
    IF ts = <<>> THEN [exc |-> "", ret |-> <<>>]
    ELSE ParseCons(parse_money(Head(ts)), Tail(ts))

\* the loop over prices with the set "seen": first occurrences, in order
DedupAdd(d, x) ==
    IF \E k \in 1..Len(d) : d[k] = x THEN d ELSE Append(d, x)

RECURSIVE Dedup(_)
Dedup(ps) ==
    IF ps = <<>> THEN <<>>
    ELSE DedupAdd(Dedup(SubSeq(ps, 1, Len(ps) - 1)), ps[Len(ps)])

\* b: the prices of the fallback selector
ExtractFallback(b) ==
    IF b.exc # "" THEN b ELSE [exc |-> "", ret |-> Dedup(b.ret)]

\* a: the prices of the common selector
ExtractFrom(h, a) ==
    IF a.exc # "" THEN a
    ELSE IF a.ret # <<>> THEN [exc |-> "", ret |-> Dedup(a.ret)]
    ELSE ExtractFallback(ParseAll(SelectTexts(h, ClassHasPrice)))

extract_sold_prices(h) ==
    ExtractFrom(h, ParseAll(SelectTexts(h, IsSItemPrice)))

(***************************************************************************)
(* robust_median                                                           *)
(***************************************************************************)
SortedInsert(r, x) ==
    SubSeq(r, 1, Cardinality({j \in 1..Len(r) : r[j] < x})) \o <<x>>
      \o SubSeq(r, Cardinality({j \in 1..Len(r) : r[j] < x}) + 1, Len(r))

RECURSIVE Sorted(_)
Sorted(ps) ==
    IF ps = <<>> THEN <<>> ELSE SortedInsert(Sorted(Tail(ps)), Head(ps))

\* prices[:n], n of either sign
Truncate(ps, n) ==
    IF n >= 0 THEN SubSeq(ps, 1, Min({n, Len(ps)}))
    ELSE SubSeq(ps, 1, Max({0, Len(ps) + n}))

\* the median of sorted data: the mean of the two middle values of an even
\* number of them
MedianSorted(sp) ==
    IF Len(sp) % 2 = 1 THEN sp[(Len(sp) + 1) \div 2]
    ELSE (sp[Len(sp) \div 2] + sp[Len(sp) \div 2 + 1]) \div 2

\* statistics.median: StatisticsError on no data
Median(ps) ==
    IF ps = <<>> THEN [exc |-> "StatisticsError", ret |-> None]
    ELSE [exc |-> "", ret |-> Some(MedianSorted(Sorted(ps)))]

\* "k = max(1, int(len(sp) * 0.10))"
TrimK(n) == Max({1, n \div 10})

\* "core = sp[k:len(sp)-k] if len(sp) - 2*k >= 3 else sp"
Core(sp, k) ==
    IF Len(sp) - 2 * k >= 3 THEN SubSeq(sp, k + 1, Len(sp) - k) ELSE sp

\* p = prices[:take_n]
MedianOfFirst(p) ==
    IF Len(p) >= 6 THEN Median(Core(Sorted(p), TrimK(Len(p))))
    ELSE Median(p)

\* robust_median with 0.0 for "no prices" in place of None
robust_median_zero(ps, n) ==
    IF ps = <<>> THEN [exc |-> "", ret |-> Some(0)]
    ELSE MedianOfFirst(Truncate(ps, n))

\* robust_median without the truncation to the first take_n
robust_median_untruncated(ps, n) ==
    IF ps = <<>> THEN [exc |-> "", ret |-> None]
    ELSE MedianOfFirst(ps)

robust_median(ps, n) ==
    IF ps = <<>> THEN [exc |-> "", ret |-> None]
    ELSE MedianOfFirst(Truncate(ps, n))

(***************************************************************************)
(* Pricing rules.  A multiplier is a number of hundredths.                 *)
(***************************************************************************)
grade_multiplier(grade_company, grade) ==
    LET g == Strip(grade)
    IN  IF g = <<>> THEN 100
        ELSE IF g = <<"1", "0">> THEN 115
        ELSE IF g = <<"9">> THEN 100
        ELSE IF g = <<"8">> THEN 75
        ELSE 90

\* int(re.sub(r"[^0-9]", "", serial)): ValueError, caught, on no digit
serial_multiplier(serial) ==
    LET d == SelectSeq(serial, IsDigit)
    IN  IF d = <<>> THEN 100
        ELSE LET n == DigitsVal(d)
             IN  IF n <= 10 THEN 130
                 ELSE IF n <= 25 THEN 118
                 ELSE IF n <= 50 THEN 110
                 ELSE IF n <= 99 THEN 105
                 ELSE 100

\* med * grade_multiplier * serial_multiplier is a number of Scale-ths of the
\* currency unit (the product is taken exactly; the rounding error of the
\* float multiplications is not modelled)
Scale == Unit * 100 * 100

\* Round towards zero
Round_floor(x) == x \div Scale

\* round(): to the nearest integer, a tie to the even one
Round(x) ==
    LET f == x \div Scale
        r == x % Scale
    IN  IF 2 * r > Scale THEN f + 1
        ELSE IF 2 * r < Scale THEN f
        ELSE IF f % 2 = 0 THEN f ELSE f + 1

\* x in Scale-ths, the result in Unit-ths
psych_price(x) ==
    IF x <= Scale THEN Unit - 2
    ELSE Max({Unit - 2, Unit * Round(x) - 2})

(***************************************************************************)
(* confidence_label                                                        *)
(***************************************************************************)
\* confidence_label looking at the count alone
confidence_label_count(tier, comp_count) ==
    IF comp_count >= 6 THEN "HIGH"
    ELSE IF comp_count >= 3 THEN "MED"
    ELSE "VERY_LOW"

confidence_label(tier, comp_count) ==
    IF tier = "exact" /\ comp_count >= 6 THEN "HIGH"
    ELSE IF tier \in {"exact", "no_grade"} /\ comp_count >= 3 THEN "MED"
    ELSE IF comp_count >= 3 THEN "LOW"
    ELSE "VERY_LOW"

(***************************************************************************)
(* Inference of the derived fields of a Card.                              *)
(***************************************************************************)
LowerCh == <<"a", "b", "c", "d", "e", "f", "g", "h", "i", "j", "k", "l", "m",
             "n", "o", "p", "q", "r", "s", "t", "u", "v", "w", "x", "y", "z">>
UpperCh == <<"A", "B", "C", "D", "E", "F", "G", "H", "I", "J", "K", "L", "M",
             "N", "O", "P", "Q", "R", "S", "T", "U", "V", "W", "X", "Y", "Z">>

IsLetter(c) == \E k \in 1..26 : LowerCh[k] = c \/ UpperCh[k] = c
\* \w
IsWord(c) == IsDigit(c) \/ IsLetter(c) \/ c = "_"
\* str.lower, one character
LowerOf(c) ==
    IF \E k \in 1..26 : UpperCh[k] = c
    THEN LowerCh[CHOOSE k \in 1..26 : UpperCh[k] = c]
    ELSE c
Lower(s) == [k \in 1..Len(s) |-> LowerOf(s[k])]

WordAt(s, p) == p >= 1 /\ p <= Len(s) /\ IsWord(s[p])
\* \b between s[p-1] and s[p]
Boundary(s, p) == WordAt(s, p - 1) # WordAt(s, p)

\* re.search(r"\b(19\d{2}|20\d{2})\b", card_name)
infer_year(card_name) ==
    LET ok(p) == /\ p + 3 <= Len(card_name)
                 /\ Boundary(card_name, p)
                 /\ \/ card_name[p] = "1" /\ card_name[p + 1] = "9"
                    \/ card_name[p] = "2" /\ card_name[p + 1] = "0"
                 /\ IsDigit(card_name[p + 2])
                 /\ IsDigit(card_name[p + 3])
                 /\ Boundary(card_name, p + 4)
        ps == {p \in 1..Len(card_name) : ok(p)}
    IN  IF ps = {} THEN <<>> ELSE SubSeq(card_name, Min(ps), Min(ps) + 3)

\* re.search(r"/\s*(\d{1,4})\b", s): the group, <<>> if no match (a match's
\* group is never empty)
SerialIn(s) ==
    LET numStart(p) == RunEnd(s, p + 1, IsSpace)
        numEnd(p) == RunEnd(s, numStart(p), IsDigit)
        ok(p) == /\ s[p] = "/"
                 /\ numEnd(p) - numStart(p) >= 1
                 /\ numEnd(p) - numStart(p) <= 4
                 /\ ~WordAt(s, numEnd(p))
        ps == {p \in 1..Len(s) : ok(p)}
    IN  IF ps = {} THEN <<>>
        ELSE SubSeq(s, numStart(Min(ps)), numEnd(Min(ps)) - 1)

infer_serial(features, card_name) ==
    IF SerialIn(features) # <<>> THEN SerialIn(features)
    ELSE SerialIn(card_name)

\* re.search(r"\b(auto|autograph)\b", features + " " + card_name, re.I)
infer_auto(features, card_name) ==
    LET s == Lower(features \o <<" ">> \o card_name)
        word(p, w) == /\ p + Len(w) - 1 <= Len(s)
                      /\ SubSeq(s, p, p + Len(w) - 1) = w
                      /\ Boundary(s, p)
                      /\ Boundary(s, p + Len(w))
        hit == \E p \in 1..Len(s) :
                  \/ word(p, <<"a", "u", "t", "o">>)
                  \/ word(p, <<"a", "u", "t", "o", "g", "r", "a", "p", "h">>)
    IN  IF hit THEN <<"Y", "e", "s">> ELSE <<"N", "o">>

infer_parallel(features) == clean(features)

(***************************************************************************)
(* build_query_tiers                                                       *)
(***************************************************************************)
\* " ".join([p for p in parts if p])
RECURSIVE Join(_)
Join(parts) ==
    IF parts = <<>> THEN <<>>
    ELSE LET rest == Join(Tail(parts))
         IN  IF Head(parts) = <<>> THEN rest
             ELSE IF SelectSeq(Tail(parts), LAMBDA x : x # <<>>) = <<>>
                  THEN Head(parts)
                  ELSE Head(parts) \o <<" ">> \o rest

\* the five tiers as constructed, before the filter
AllTiers(c) ==
    LET year == IF c.year # <<>> THEN c.year ELSE infer_year(c.card_name)
        set_name == c.card_set
        player == c.player
        insert_parallel == IF c.parallel # <<>> THEN c.parallel
                           ELSE infer_parallel(c.features)
        serial == IF c.serial # <<>> THEN c.serial
                  ELSE infer_serial(c.features, c.card_name)
        auto == IF c.auto # <<>> THEN c.auto
                ELSE infer_auto(c.features, c.card_name)
        base == <<year, set_name, player, insert_parallel>>
        ser == IF serial # <<>> THEN << <<"/">> \o serial >> ELSE <<>>
        aut == IF Lower(auto) = <<"y", "e", "s">>
               THEN << <<"a", "u", "t", "o">> >> ELSE <<>>
        grd == IF c.grade_company # <<>> /\ c.grade # <<>>
               THEN <<c.grade_company, c.grade>> ELSE <<>>
    IN  << [name |-> "exact", q |-> clean(Join(base \o ser \o aut \o grd))],
           [name |-> "no_grade", q |-> clean(Join(base \o ser \o aut))],
           [name |-> "no_serial", q |-> clean(Join(base \o aut))],
           [name |-> "player_set",
            q |-> clean(Join(<<year, set_name, player>> \o aut))],
           [name |-> "loose", q |-> clean(Join(<<set_name, player>>))] >>

\* Skipped without the test of the set seen
Skipped_empty(q, seenq) == q = <<>>

\* "if not q or q in seen: continue"
Skipped(q, seenq) == q = <<>> \/ q \in seenq

\* the loop that removes empty queries and duplicates, keeping the order
RECURSIVE Uniq(_, _)
Uniq(ts, seenq) ==
    IF ts = <<>> THEN <<>>
    ELSE IF Skipped(Head(ts).q, seenq) THEN Uniq(Tail(ts), seenq)
    ELSE <<Head(ts)>> \o Uniq(Tail(ts), seenq \cup {Head(ts).q})

build_query_tiers(c) == Uniq(AllTiers(c), {})

(***************************************************************************)
(* scrapingbee_get and build_ebay_sold_search_url.  A response of the      *)
(* service is its status and its body; the URL is kept as its query and    *)
(* category parameters (LH_Sold and LH_Complete are fixed).                *)
(***************************************************************************)
\* args.category, as urlencode writes it
category == "47140"

\* urllib.parse.quote_plus, on the characters of a query
QuoteCh(c) ==
    IF c = " " THEN "+"
    ELSE IF c = "/" THEN "%2F"
    ELSE c

build_ebay_sold_search_url(q, cat) ==
    <<"https://www.ebay.com/sch/i.html?_nkw=">>
      \o [k \in 1..Len(q) |-> QuoteCh(q[k])]
      \o <<"&_sacat=", cat, "&LH_Sold=1&LH_Complete=1">>

\* scrapingbee_get without the check of the key
scrapingbee_get_nokey(has_key, resp) ==
    IF resp.status # "ok" THEN [exc |-> "HTTPError", ret |-> <<>>]
    ELSE [exc |-> "", ret |-> resp.html]

\* has_key: SCRAPINGBEE_API_KEY is set; resp: what requests.get meets
scrapingbee_get(has_key, resp) ==
    IF ~has_key THEN [exc |-> "RuntimeError", ret |-> <<>>]
    ELSE IF resp.status # "ok" THEN [exc |-> "HTTPError", ret |-> <<>>]
    ELSE [exc |-> "", ret |-> resp.html]

\* a page of n sold listings priced $1 .. $n
PageOf(n) ==
    [k \in 1..n |-> [cls |-> "s-item__price", txt |-> <<"$", Digits[k + 1]>>]]

\* what requests.get meets: a page, or a failure (a non-success status or a
\* transport failure)
Responses ==
    {[status |-> "ok", html |-> PageOf(n)] : n \in {0, 2, 4, 5, 7}}
      \cup {[status |-> "error", html |-> <<>>]}

\* extract_sold_prices of each page of Responses, evaluated once
Extracted == [h \in {r.html : r \in Responses} |-> extract_sold_prices(h)]

(***************************************************************************)
(* fetch_best_comps_for_card: one iteration of the loop over the tiers,    *)
(* and the code after the loop.                                            *)
(***************************************************************************)
\* EarlyStop with > for >=
EarlyStop_gt(n, med, mc) == n > mc /\ med # None

\* "if len(prices) >= min_comps and med is not None"
EarlyStop(n, med, mc) == n >= mc /\ med # None

\* Better with >= for >
Better_ge(n, med, bc) == n >= bc /\ med # None

\* "if len(prices) > bc and med is not None"
Better(n, med, bc) == n > bc /\ med # None

\* UpdateBest keeping the latest tier whatever its count
UpdateBest_latest(b, cur, mc) ==
    IF EarlyStop(cur.count, cur.med, mc)
    THEN [best |-> Some(cur), brk |-> TRUE]
    ELSE [best |-> Some(cur), brk |-> FALSE]

\* the accumulator after the iteration for a tier with outcome cur, and
\* whether the loop breaks
UpdateBest(b, cur, mc) ==
    LET b1 == IF b = None THEN Some(cur) ELSE b
    IN  IF EarlyStop(cur.count, cur.med, mc)
        THEN [best |-> Some(cur), brk |-> TRUE]
        ELSE IF Better(cur.count, cur.med, b1[1].count)
             THEN [best |-> Some(cur), brk |-> FALSE]
             ELSE [best |-> b1, brk |-> FALSE]

\* one iteration: fetch, extract, estimate, update.  fetch is the outcome of
\* scrapingbee_get, exc the exception that leaves the function ("" if none),
\* count is len(prices) (0 when the iteration ended before the extraction)
Raised(b, f, e, n) ==
    [fetch |-> f, exc |-> e, best |-> b, brk |-> FALSE,
     count |-> n, med |-> None]

Updated(u, n, med) ==
    [fetch |-> "ok", exc |-> "", best |-> u.best, brk |-> u.brk,
     count |-> n, med |-> med]

\* m = robust_median(prices, take_n), n = len(prices)
AfterMedian(b, tier, n, m, mc) ==
    IF m.exc # "" THEN Raised(b, "ok", m.exc, n)
    ELSE Updated(UpdateBest(b, [tier |-> tier.name, count |-> n,
                                med |-> m.ret,
                                url |-> build_ebay_sold_search_url(
                                            tier.q, category)], mc),
                 n, m.ret)

\* ex = extract_sold_prices(html), html a page of Responses
AfterExtract(b, tier, ex, mc, tn) ==
    IF ex.exc # "" THEN Raised(b, "ok", ex.exc, 0)
    ELSE AfterMedian(b, tier, Len(ex.ret), robust_median(ex.ret, tn), mc)

\* g = scrapingbee_get(url, ...)
AfterFetch(b, tier, g, mc, tn) ==
    IF g.exc # "" THEN Raised(b, g.exc, g.exc, 0)
    ELSE AfterExtract(b, tier, Extracted[g.ret], mc, tn)

LoopBody(b, tier, resp, has_key, mc, tn) ==
    AfterFetch(b, tier, scrapingbee_get(has_key, resp), mc, tn)

\* Suggested with the rounding applied after each multiplier
Suggested_each(med, grade_company, grade, serial) ==
    psych_price(psych_price(med * grade_multiplier(grade_company, grade) * 100)
                  * 100 * serial_multiplier(serial))

\* "suggested = med * grade_multiplier(...) * serial_multiplier(...)" and
\* "suggested = psych_price(suggested)": med in Unit-ths, the result too
Suggested(med, grade_company, grade, serial) ==
    psych_price(med * grade_multiplier(grade_company, grade)
                    * serial_multiplier(serial))

\* Result with a price of 0.99 when there is no estimate
Result_priced(b, c) ==
    LET r == IF b # None THEN b[1]
             ELSE [tier |-> "loose", count |-> 0, med |-> None, url |-> <<>>]
    IN  [tier |-> r.tier, conf |-> confidence_label(r.tier, r.count),
         count |-> r.count, med |-> r.med,
         suggested |-> Some(IF r.med = None THEN psych_price(0)
                            ELSE Suggested(r.med[1], c.grade_company,
                                           c.grade, c.serial)),
         url |-> r.url]

\* the code after the loop: the returned tuple
Result(b, c) ==
    LET r == IF b # None THEN b[1]
             ELSE [tier |-> "loose", count |-> 0, med |-> None, url |-> <<>>]
        conf == confidence_label(r.tier, r.count)
    IN  IF r.med = None
        THEN [tier |-> r.tier, conf |-> conf, count |-> r.count,
              med |-> None, suggested |-> None, url |-> r.url]
        ELSE [tier |-> r.tier, conf |-> conf, count |-> r.count,
              med |-> r.med,
              suggested |-> Some(Suggested(r.med[1], c.grade_company,
                                           c.grade, c.serial)),
              url |-> r.url]

(***************************************************************************)
(* Inputs.                                                                 *)
(***************************************************************************)
\* the longest inventory
MaxItems == 2
\* the most pieces of a price text
MaxPieces == 4
\* the most elements of a page
MaxEls == 2

MkCard(name, player, features, set, year, parallel, serial, auto, gc, g) ==
    [card_name |-> name, player |-> player, features |-> features,
     card_set |-> set, year |-> year, parallel |-> parallel,
     serial |-> serial, auto |-> auto, grade_company |-> gc, grade |-> g]

Yes == <<"Y", "e", "s">>
No == <<"N", "o">>

\* a graded, numbered autograph: five distinct queries
CardFull == MkCard(<<>>, <<"M">>, <<>>, <<"T">>, <<"2", "0", "2", "0">>,
                   <<"R">>, <<"2", "5">>, Yes, <<"P">>, <<"1", "0">>)
\* a row of the inventory with no text: no query at all
CardBlank == MkCard(<<>>, <<>>, <<>>, <<>>, <<>>, <<>>, <<>>, No, <<>>, <<>>)

Inventory == {CardFull, CardBlank}
Inventories ==
    UNION {[1..n -> Inventory] : n \in 0..MaxItems}

MinComps == {0, 5}
TakeNs == {0, 3, 20}

(***************************************************************************)
(* main and fetch_best_comps_for_card as a state machine.                  *)
(***************************************************************************)
Idle ==
    /\ text = <<>> /\ pm = [exc |-> "", ret |-> None]
    /\ html = <<>> /\ prices = [exc |-> "", ret |-> <<>>]
    /\ card = CardBlank /\ qt = <<>>
    /\ args = <<>> /\ ret = <<>>

NoRun ==
    /\ cred = TRUE /\ min_comps = 5 /\ take_n = 20 /\ cards = <<>>
    /\ i = 1 /\ tiers = <<>> /\ t = 0 /\ best = None /\ stopped = FALSE
    /\ fetched = <<>> /\ seen = <<>> /\ out_rows = <<>> /\ exc = ""

pureVars == <<text, pm, html, prices, card, qt, args, ret>>
runVars == <<cred, min_comps, take_n, cards, i, tiers, t, best, stopped,
             fetched, seen, out_rows, exc>>

Init ==
    /\ pc = "main"
    /\ cred \in BOOLEAN
    /\ min_comps \in MinComps
    /\ take_n \in TakeNs
    /\ cards \in Inventories
    /\ i = 1
    /\ tiers = <<>>
    /\ t = 0
    /\ best = None
    /\ stopped = FALSE
    /\ fetched = <<>>
    /\ seen = <<>>
    /\ out_rows = <<>>
    /\ exc = ""
    /\ Idle

\* main, the head of the item loop, and the call of
\* fetch_best_comps_for_card up to its loop
EnterItem ==
    /\ pc = "main"
    /\ i <= Len(cards)
    /\ tiers' = build_query_tiers(cards[i])
    /\ best' = None
    /\ t' = 0
    /\ stopped' = FALSE
    /\ seen' = <<>>
    /\ fetched' = <<>>
    /\ pc' = "loop"
    /\ UNCHANGED <<cred, min_comps, take_n, cards, i, out_rows, exc>>
    /\ UNCHANGED pureVars

\* the effect on the state of one iteration with outcome r
Iterated(tier, r) ==
    /\ fetched' = Append(fetched, [item |-> i, name |-> tier.name,
                                   status |-> r.fetch, count |-> r.count])
    /\ IF r.exc # ""
       THEN /\ pc' = "raised"
            /\ exc' = r.exc
            /\ UNCHANGED <<t, best, stopped, seen>>
       ELSE /\ t' = t + 1
            /\ best' = r.best
            /\ stopped' = r.brk
            /\ seen' = Append(seen, [name |-> tier.name, count |-> r.count,
                                     med |-> r.med])
            /\ UNCHANGED <<pc, exc>>

\* one iteration of "for tier_name, q in tiers"
TierIteration ==
    /\ pc = "loop"
    /\ ~stopped
    /\ t < Len(tiers)
    /\ \E resp \in Responses :
          Iterated(tiers[t + 1],
                   LoopBody(best, tiers[t + 1], resp, cred, min_comps, take_n))
    /\ UNCHANGED <<cred, min_comps, take_n, cards, i, tiers, out_rows>>
    /\ UNCHANGED pureVars

\* the code after the loop, the return (the locals of the call are gone),
\* and the rest of main's iteration
ReturnItem ==
    /\ pc = "loop"
    /\ stopped \/ t = Len(tiers)
    /\ out_rows' = Append(out_rows, Result(best, cards[i]))
    /\ i' = i + 1
    /\ pc' = "main"
    /\ tiers' = <<>>
    /\ t' = 0
    /\ best' = None
    /\ stopped' = FALSE
    /\ fetched' = <<>>
    /\ seen' = <<>>
    /\ UNCHANGED <<cred, min_comps, take_n, cards, exc>>
    /\ UNCHANGED pureVars

\* write_bulk_csv after the last item
Finish ==
    /\ pc = "main"
    /\ i > Len(cards)
    /\ pc' = "done"
    /\ UNCHANGED runVars
    /\ UNCHANGED pureVars

Next == EnterItem \/ TierIteration \/ ReturnItem \/ Finish

Spec == Init /\ [][Next]_vars

(***************************************************************************)
(* parse_money and extract_sold_prices on their own.                       *)
(***************************************************************************)
Pieces ==
    { <<"$", "1">>, <<"$", "2">>, <<"$", "0">>, <<"$", "0", ".", "0", "0">>,
      <<"$", ",">>, <<"$", "1", ",", "0", "0", "0">>,
      <<" ", "t", "o", " ">>, <<" ">>, <<"x">> }

RECURSIVE Concat(_)
Concat(ss) == IF ss = <<>> THEN <<>> ELSE Head(ss) \o Concat(Tail(ss))

Texts == UNION {{Concat(f) : f \in [1..n -> Pieces]} : n \in 0..MaxPieces}

Elements ==
    [cls : {"s-item__price", "x-price", "title"},
     txt : { <<>>, <<"$", "1">>, <<"$", "2">>, <<"$", "0", ".", "0", "0">>,
             <<"$", ",">>, <<"$", "2", " ", "t", "o", " ", "$", "1">>,
             <<"S", "o", "l", "d">> }]

Htmls == UNION {[1..n -> Elements] : n \in 0..MaxEls}

InitPure ==
    /\ pc = "start"
    /\ NoRun
    /\ Idle

ParseMoney ==
    /\ pc = "start"
    /\ \E tx \in Texts :
          /\ text' = tx
          /\ pm' = parse_money(tx)
    /\ pc' = "parsed"
    /\ UNCHANGED <<html, prices, card, qt, args, ret>>
    /\ UNCHANGED runVars

ExtractSoldPrices ==
    /\ pc = "start"
    /\ \E h \in Htmls :
          /\ html' = h
          /\ prices' = extract_sold_prices(h)
    /\ pc' = "extracted"
    /\ UNCHANGED <<text, pm, card, qt, args, ret>>
    /\ UNCHANGED runVars

NextMoney == ParseMoney \/ ExtractSoldPrices

SpecMoney == InitPure /\ [][NextMoney]_vars

(***************************************************************************)
(* build_query_tiers on its own.                                           *)
(***************************************************************************)
CardInputs ==
    [card_name : { <<>>, <<"2", "0", "2", "1", " ", "/", "5", " ", "A", "u", "t", "o">> },
     player : { <<>>, <<"M">>, <<" ">> },
     features : { <<>>, <<"R">> },
     card_set : { <<>>, <<"T">>, <<"M">> },
     year : { <<>>, <<"2", "0", "2", "0">> },
     parallel : { <<>>, <<"R">> },
     serial : { <<>>, <<"2", "5">> },
     auto : { <<>>, Yes, No },
     grade_company : { <<>>, <<"P">> },
     grade : { <<>>, <<"1", "0">> }]

BuildQueryTiers ==
    /\ pc = "start"
    /\ \E c \in CardInputs :
          /\ card' = c
          /\ qt' = build_query_tiers(c)
    /\ pc' = "built"
    /\ UNCHANGED <<text, pm, html, prices, args, ret>>
    /\ UNCHANGED runVars

NextTiers == BuildQueryTiers

SpecTiers == InitPure /\ [][NextTiers]_vars

(***************************************************************************)
(* robust_median and the pricing rules on their own.                       *)
(***************************************************************************)
\* the longest list of samples
MaxSamples == 7
\* the greatest value given to psych_price, in twentieths of the unit
MaxTwentieths == 100

\* $1.00, $2.00, $4.01
Amounts == {Unit, 2 * Unit, 4 * Unit + 2}

SampleLists == UNION {[1..n -> Amounts] : n \in 0..MaxSamples}

\* take_n
Caps == 0..(MaxSamples + 1)

\* values of x, in Scale-ths: a grid of 0.05, a negative value, 45.30
Values ==
    {k * (Scale \div 20) : k \in 0..MaxTwentieths}
      \cup {0 - Scale, 45 * Scale + 3 * (Scale \div 10)}

Grades ==
    { <<>>, <<"1", "0">>, <<"9">>, <<"8">>, <<"7">>, <<"9", ".", "5">>,
      <<"A">>, <<" ", "1", "0", " ">> }

Serials ==
    { <<>>, <<"0">>, <<"1">>, <<"1", "0">>, <<"1", "1">>, <<"2", "5">>,
      <<"2", "6">>, <<"5", "0">>, <<"5", "1">>, <<"9", "9">>,
      <<"1", "0", "0">>, <<"2", "5", "0">>, <<"/", "2", "5">>, <<"x">> }

\* medians: $1.00, $1.50 (a tie of round), $2.50 (a tie), $100.00
Estimates == {Unit, Unit + Unit \div 2, 2 * Unit + Unit \div 2, 100 * Unit}

RobustMedian ==
    /\ pc = "start"
    /\ \E ps \in SampleLists, n \in Caps :
          /\ args' = [prices |-> ps, take_n |-> n]
          /\ ret' = robust_median(ps, n)
    /\ pc' = "estimated"
    /\ UNCHANGED <<text, pm, html, prices, card, qt>>
    /\ UNCHANGED runVars

PsychPrice ==
    /\ pc = "start"
    /\ \E x \in Values :
          /\ args' = [x |-> x]
          /\ ret' = psych_price(x)
    /\ pc' = "rounded"
    /\ UNCHANGED <<text, pm, html, prices, card, qt>>
    /\ UNCHANGED runVars

\* lines 451-452 of fetch_best_comps_for_card, for a card with the grade and
\* the serial given
SuggestPrice ==
    /\ pc = "start"
    /\ \E med \in Estimates, g \in Grades, sr \in Serials :
          /\ args' = [med |-> med, grade |-> g, serial |-> sr]
          /\ ret' = Suggested(med, <<"P">>, g, sr)
    /\ pc' = "suggested"
    /\ UNCHANGED <<text, pm, html, prices, card, qt>>
    /\ UNCHANGED runVars

NextPricing == RobustMedian \/ PsychPrice \/ SuggestPrice

SpecPricing == InitPure /\ [][NextPricing]_vars

(***************************************************************************)
(* Properties.                                                             *)
(***************************************************************************)
\* every tier processed by the current call yielded no sample
AllZero(sn) == \A j \in DOMAIN sn : sn[j].count = 0
\* the step in which fetch_best_comps_for_card returns
Returning == pc = "loop" /\ pc' = "main"
\* the early-stop condition, as the specification states it
Meets(o) == o.count >= min_comps /\ o.med # None
\* the two amounts of the range that _range_re finds in s, and whether there is
\* such a range with two amounts that are numbers
RangeLow(s) == ToFloat(MoneyGroup(s, RangeSearch(s)))
RangeHigh(s) == ToFloat(MoneyGroup(s, RangeSecond(s, RangeSearch(s))))
IsRange(s) ==
    /\ RangeSearch(s) > 0
    /\ RangeLow(s).exc = ""
    /\ RangeHigh(s).exc = ""

\* C1: a tier whose fetch fails with a fetch error is treated as zero samples
\* and no estimate, the loop goes on and the call returns: the failure does
\* not abort the item or the run.
C1_FetchErrorRecovered ==
    \A k \in DOMAIN fetched :
        fetched[k].status = "HTTPError" =>
            /\ pc # "raised"
            /\ exc = ""
            /\ k <= Len(seen)
            /\ seen[k].count = 0
            /\ seen[k].med = None

\* C2: when every attempted tier yields zero samples (also when no tier is
\* attempted), the call returns a result with count 0, no estimate, no
\* suggested price and confidence VERY_LOW; an exception that is not the
\* fetch's own leaves the call only from a tier that yielded samples.
C2_NoSamplesDegenerate ==
    [][/\ (Returning /\ AllZero(seen)) =>
            /\ Len(out_rows') = Len(out_rows) + 1
            /\ out_rows'[Len(out_rows')].count = 0
            /\ out_rows'[Len(out_rows')].med = None
            /\ out_rows'[Len(out_rows')].suggested = None
            /\ out_rows'[Len(out_rows')].conf = "VERY_LOW"
       /\ (pc' = "raised" /\ exc' \notin {"RuntimeError", "HTTPError"}) =>
            fetched'[Len(fetched')].count > 0]_vars

\* C2 witness: an item without any query and an item with five queries, all
\* of them without a sample, have both been given the degenerate result.
C2_Witness ==
    /\ pc = "main"
    /\ cards = <<CardBlank, CardFull>>
    /\ Len(out_rows) = 2
    /\ \A k \in 1..2 : /\ out_rows[k].count = 0
                       /\ out_rows[k].suggested = None
                       /\ out_rows[k].conf = "VERY_LOW"

\* C3, as stated: when every tier yields zero samples, the label of the
\* result is the label of the last tier attempted.
C3_LastTierLabel ==
    [][(Returning /\ AllZero(seen) /\ seen # <<>>) =>
            out_rows'[Len(out_rows')].tier = seen[Len(seen)].name]_vars

\* C3, amended: when every tier yields zero samples, the label of the result
\* is the label of the first tier attempted, and "loose" when no tier was
\* attempted.
C3_FirstTierLabel ==
    [][(Returning /\ AllZero(seen)) =>
            out_rows'[Len(out_rows')].tier =
                IF seen = <<>> THEN "loose" ELSE seen[1].name]_vars

\* C3 witness: the five tiers of an item all came back empty and the result
\* is labelled exact.
C3_Witness ==
    /\ pc = "main"
    /\ i = 2
    /\ cards[1] = CardFull
    /\ out_rows[1].count = 0
    /\ out_rows[1].tier = "exact"

\* C4: the tiers are fetched in the order of build_query_tiers, each at most
\* once; a tier meets the early-stop condition exactly when the loop stops
\* at it, the accumulator is then that tier's outcome, and no later tier is
\* fetched.
C4_InOrderEarlyStop ==
    /\ Len(fetched) <= Len(tiers)
    /\ Len(fetched) = Len(seen) + (IF pc = "raised" THEN 1 ELSE 0)
    /\ \A k \in DOMAIN fetched :
          /\ fetched[k].item = i
          /\ fetched[k].name = tiers[k].name
          /\ \A l \in DOMAIN fetched : fetched[l].name = fetched[k].name => l = k
    /\ \A j \in DOMAIN seen :
          /\ seen[j].name = tiers[j].name
          /\ Meets(seen[j]) <=> (stopped /\ j = Len(seen))
    /\ stopped =>
          /\ seen # <<>>
          /\ best # None
          /\ best[1].tier = seen[Len(seen)].name
          /\ best[1].count = seen[Len(seen)].count
          /\ best[1].med = seen[Len(seen)].med

\* C4 witness: with min_comps = 5 the tier exact yielded 7 samples, and the
\* loop stopped with four tiers left unfetched.
C4_Witness ==
    /\ pc = "loop"
    /\ min_comps = 5
    /\ Len(tiers) = 5
    /\ stopped
    /\ Len(fetched) = 1
    /\ seen[1].name = "exact"
    /\ seen[1].count = 7

\* C5: while no tier has met the early-stop condition, the accumulator is
\* the outcome of the earliest of the tiers processed that has the greatest
\* sample count.
C5_BestIsEarliestMax ==
    (~stopped /\ seen # <<>>) =>
        LET mx == Max({seen[j].count : j \in DOMAIN seen})
            first == Min({j \in DOMAIN seen : seen[j].count = mx})
        IN  /\ best # None
            /\ best[1].tier = seen[first].name
            /\ best[1].count = mx
            /\ best[1].med = seen[first].med

\* C5 witness: exact yielded 2 samples and no_grade 4, with min_comps = 5,
\* and no_serial is the next tier.
C5_Witness ==
    /\ pc = "loop"
    /\ min_comps = 5
    /\ ~stopped
    /\ Len(seen) = 2
    /\ seen[1].count = 2
    /\ seen[2].count = 4
    /\ tiers[3].name = "no_serial"
    /\ best[1].tier = "no_grade"

\* C6: without the credential the first fetch attempted raises the
\* configuration failure, which ends the run there: one fetch in all, no
\* tier processed, no result for the item, no step after it.
C6_MissingKeyAborts ==
    ~cred =>
        /\ Len(fetched) <= 1
        /\ fetched # <<>> =>
              /\ pc = "raised"
              /\ exc = "RuntimeError"
              /\ fetched[1].status = "RuntimeError"
              /\ seen = <<>>
              /\ Len(out_rows) = i - 1
              /\ ~ENABLED Next

\* C6 witness: the run has ended on the configuration failure with an item
\* of the inventory still to come.
C6_Witness ==
    /\ ~cred
    /\ pc = "raised"
    /\ exc = "RuntimeError"
    /\ i < Len(cards)

TierOrder == <<"exact", "no_grade", "no_serial", "player_set", "loose">>
Rank(name) == CHOOSE k \in 1..5 : TierOrder[k] = name

\* ts is what the filter leaves of the five constructed tiers at
WellFormed(at, ts) ==
    /\ Len(ts) <= 5
    /\ \A k \in DOMAIN ts :
          /\ ts[k].name \in {TierOrder[r] : r \in 1..5}
          /\ ts[k].q # <<>>
          /\ \A j \in 1..(k - 1) :
                /\ Rank(ts[j].name) < Rank(ts[k].name)
                /\ ts[j].q # ts[k].q
    /\ \A k \in 1..5 :
          /\ at[k].name = TierOrder[k]
          /\ (\E j \in DOMAIN ts : ts[j] = at[k])
                <=> /\ at[k].q # <<>>
                    /\ \A e \in 1..(k - 1) : at[e].q # at[k].q

\* C7: build_query_tiers returns at most 5 tiers, their labels distinct and
\* in the fixed order, no query empty, no query twice; a constructed tier is
\* returned exactly when its query is not empty and no tier constructed
\* before it has the same query.
C7_TiersWellFormed ==
    pc = "built" => WellFormed(AllTiers(card), qt)

\* C7 witness: of the five tiers constructed, one with a query that an
\* earlier tier has too was dropped, and more than one tier is left.
C7_Witness ==
    /\ pc = "built"
    /\ Len(qt) > 1
    /\ \E k \in 1..5 :
          /\ AllTiers(card)[k].q # <<>>
          /\ \A j \in DOMAIN qt : qt[j].name # TierOrder[k]

\* C8: price extraction never raises, whatever the text.
C8_ExtractionNeverRaises ==
    /\ pm.exc = ""
    /\ prices.exc = ""

\* C9: every value extract_sold_prices returns is strictly positive.
C9_SamplesPositive ==
    \A k \in DOMAIN prices.ret : prices.ret[k] > 0

\* C10: on a text with a range, parse_money returns the smaller of the two
\* amounts of the range.
C10_RangeLowerBound ==
    (pc = "parsed" /\ IsRange(clean(text))) =>
        /\ pm.exc = ""
        /\ pm.ret = Some(Min({RangeLow(clean(text)).ret[1],
                              RangeHigh(clean(text)).ret[1]}))

\* the k-th smallest of the samples of p, counted with repetition
OrderStat(p, k) ==
    CHOOSE v \in {p[j] : j \in DOMAIN p} :
        /\ Cardinality({j \in DOMAIN p : p[j] < v}) < k
        /\ k <= Cardinality({j \in DOMAIN p : p[j] <= v})
\* the median of the lo-th to the hi-th smallest samples of p: the middle one,
\* or the average of the two middle ones
MedianOfRanks(p, lo, hi) ==
    IF (hi - lo) % 2 = 0 THEN OrderStat(p, (lo + hi) \div 2)
    ELSE (OrderStat(p, (lo + hi - 1) \div 2)
            + OrderStat(p, (lo + hi + 1) \div 2)) \div 2
\* the number of samples dropped at each end of L samples, L >= 6
Dropped(L) ==
    IF (IF L >= 10 THEN L \div 10 ELSE 1) * 2 + 3 > L THEN 0
    ELSE IF L >= 10 THEN L \div 10 ELSE 1
\* robust_median has been called on its own
Estimated == pc = "estimated"
\* the samples left by the truncation to the cap
Considered == Truncate(args.prices, args.take_n)
\* lists with which a list cut at the cap may go on
Extensions == UNION {[1..n -> Amounts] : n \in 0..2}

\* C11: robust_median(prices, N) depends only on the first N samples: with L
\* samples left by the truncation, 1 <= L < 6 gives the plain median of those
\* L samples; L >= 6 gives the median of what remains of them, sorted, after
\* the k lowest and the k highest are dropped, k = max(1, floor(0.10 * L)),
\* none being dropped if fewer than 3 would remain; the median of an even
\* number of values is the average of the two middle ones.  (L = 0 is the
\* matter of C12.)
C11_MedianOfFirstN ==
    Estimated /\ Len(Considered) >= 1 =>
        /\ ret.exc = ""
        /\ Len(Considered) < 6 =>
              ret.ret = Some(MedianOfRanks(Considered, 1, Len(Considered)))
        /\ Len(Considered) >= 6 =>
              /\ Core(Sorted(Considered), TrimK(Len(Considered)))
                   = [j \in 1..(Len(Considered) - 2 * Dropped(Len(Considered)))
                        |-> OrderStat(Considered,
                                      Dropped(Len(Considered)) + j)]
              /\ ret.ret = Some(MedianOfRanks(Considered,
                                    Dropped(Len(Considered)) + 1,
                                    Len(Considered) - Dropped(Len(Considered))))
        /\ Len(Considered) = args.take_n =>
              \A ext \in Extensions :
                  robust_median(Considered \o ext, args.take_n) = ret

\* seven samples capped at six: the trim acts on six, and the median is the
\* average of the two middle ones of the four that remain
C11_Witness ==
    /\ Estimated
    /\ args.prices = <<4 * Unit + 2, Unit, 2 * Unit, Unit, 4 * Unit + 2,
                       4 * Unit + 2, Unit>>
    /\ args.take_n = 6
    /\ ret = [exc |-> "", ret |-> Some(3 * Unit + 1)]

\* C12: for every sample list and every cap N, N = 0 with a non-empty list
\* included, if fewer than 1 sample remains after the truncation to the first
\* N, robust_median returns "no estimate" (None) and raises no error
C12_NoSampleNoEstimate ==
    Estimated /\ Len(Considered) < 1 => ret = [exc |-> "", ret |-> None]

\* C13: the sample count attached to the estimate of a tier, which is the one
\* of the early stop, of the replacement, of the confidence label and of the
\* returned result, is the number of samples after the truncation to the cap:
\* it never exceeds take_n
C13_CountWithinCap ==
    /\ \A j \in DOMAIN seen : seen[j].count <= take_n
    /\ best # None => best[1].count <= take_n
    /\ \A j \in DOMAIN out_rows : out_rows[j].count <= take_n

\* C14: in every result returned by fetch_best_comps_for_card the suggested
\* price is non-null exactly when the raw estimate is non-null, and a non-null
\* estimate implies that the chosen tier had at least one extracted sample: no
\* price is produced from zero evidence
C14_NoPriceWithoutEvidence ==
    /\ \A j \in DOMAIN out_rows :
          /\ out_rows[j].suggested # None <=> out_rows[j].med # None
          /\ out_rows[j].med # None => out_rows[j].count >= 1
    /\ best # None /\ best[1].med # None => best[1].count >= 1

\* one item returned with an estimate and a price, one with neither
C14_Witness ==
    /\ pc = "done"
    /\ Len(out_rows) = 2
    /\ out_rows[1].med # None /\ out_rows[1].suggested # None
    /\ out_rows[1].count >= 1
    /\ out_rows[2].med = None /\ out_rows[2].suggested = None
    /\ cards[2] = CardFull

\* the confidence policy as the specification states it
Policy(tier, count) ==
    IF tier = "exact" /\ count >= 6 THEN "HIGH"
    ELSE IF (tier = "exact" \/ tier = "no_grade") /\ count >= 3 THEN "MED"
    ELSE IF count >= 3 THEN "LOW"
    ELSE "VERY_LOW"

\* C15: the confidence label of the returned result is a function of the
\* chosen tier's label and sample count only: HIGH iff the tier is exact and
\* the count >= 6; otherwise MED iff the tier is exact or no_grade and the
\* count >= 3; otherwise LOW iff the count >= 3; otherwise VERY_LOW, count 0
\* included
C15_ConfidencePolicy ==
    \A j \in DOMAIN out_rows :
        out_rows[j].conf = Policy(out_rows[j].tier, out_rows[j].count)

\* a result of the exact tier with six samples or more, and a result of a tier
\* after no_grade with three or more
C15_Witness ==
    /\ Len(out_rows) = 2
    /\ out_rows[1].tier = "exact" /\ out_rows[1].count >= 6
    /\ out_rows[1].conf = "HIGH"
    /\ out_rows[2].tier \notin {"exact", "no_grade"}
    /\ out_rows[2].count >= 3
    /\ out_rows[2].conf = "LOW"

\* the grade multiplier of the specification, in hundredths, for the grades
\* of Grades
GradeFactor(g) ==
    IF g = <<>> THEN 100
    ELSE IF g \in { <<"1", "0">>, <<" ", "1", "0", " ">> } THEN 115
    ELSE IF g = <<"9">> THEN 100
    ELSE IF g = <<"8">> THEN 75
    ELSE 90
\* the print run each serial of Serials denotes, -1 for none or unparsable
RunOf(sr) ==
    CASE sr = <<"0">> -> 0
      [] sr = <<"1">> -> 1
      [] sr = <<"1", "0">> -> 10
      [] sr = <<"1", "1">> -> 11
      [] sr \in { <<"2", "5">>, <<"/", "2", "5">> } -> 25
      [] sr = <<"2", "6">> -> 26
      [] sr = <<"5", "0">> -> 50
      [] sr = <<"5", "1">> -> 51
      [] sr = <<"9", "9">> -> 99
      [] sr = <<"1", "0", "0">> -> 100
      [] sr = <<"2", "5", "0">> -> 250
      [] OTHER -> -1
\* the serial multiplier of the specification, in hundredths
SerialFactor(run) ==
    IF run < 0 \/ run > 99 THEN 100
    ELSE IF run <= 10 THEN 130
    ELSE IF run <= 25 THEN 118
    ELSE IF run <= 50 THEN 110
    ELSE 105

\* C16: when the chosen tier has an estimate, the suggested price is
\* psych_price(estimate x grade multiplier x serial multiplier), the grade
\* multiplier being 1.00 (no grade), 1.15 ("10"), 1.00 ("9"), 0.75 ("8"), 0.90
\* (any other grade), the serial multiplier 1.30 (run <= 10), 1.18 (<= 25),
\* 1.10 (<= 50), 1.05 (<= 99), 1.00 (no serial, unparsable or > 99); the two
\* compound and the rounding is applied once, after both: estimate 100, grade
\* "10", serial "10" give 149.5 and then 149.99
C16_SuggestedPrice ==
    pc = "suggested" =>
        /\ grade_multiplier(<<"P">>, args.grade) = GradeFactor(args.grade)
        /\ serial_multiplier(args.serial) = SerialFactor(RunOf(args.serial))
        /\ ret = psych_price(args.med * GradeFactor(args.grade)
                                      * SerialFactor(RunOf(args.serial)))
        /\ (args.med = 100 * Unit /\ args.grade = <<"1", "0">>
              /\ args.serial = <<"1", "0">>) => ret = 150 * Unit - 2

\* estimate 100, grade "10", serial "10": 149.99
C16_Witness ==
    /\ pc = "suggested"
    /\ args = [med |-> 100 * Unit, grade |-> <<"1", "0">>,
               serial |-> <<"1", "0">>]
    /\ ret = 150 * Unit - 2

\* r is a whole number of units nearest to x, x in Scale-ths
Nearest(r, x) == 2 * (Scale * r - x) <= Scale /\ 2 * (x - Scale * r) <= Scale

\* C17: psych_price(v) is 0.99 for every v <= 1.00 and otherwise
\* max(0.99, R - 0.01), R being v rounded to the nearest whole unit; hence the
\* output is a whole number minus one cent and at least 0.99, and psych_price
\* is non-decreasing in v, also across the values halfway between two whole
\* units (1.50, 2.50, 3.50); psych_price(0.50) = 0.99, psych_price(1.00) =
\* 0.99, psych_price(45.30) = 44.99
C17_PsychPrice ==
    pc = "rounded" =>
        /\ args.x <= Scale => ret = Unit - 2
        /\ args.x > Scale =>
              \E r \in 0..(args.x \div Scale + 1) :
                  /\ Nearest(r, args.x)
                  /\ ret = Max({Unit - 2, Unit * r - 2})
        /\ \E k \in 1..(Max({args.x, 0}) \div Scale + 1) : ret = Unit * k - 2
        /\ ret >= Unit - 2
        /\ \A w \in Values : w <= args.x => psych_price(w) <= ret
        /\ args.x = Scale \div 2 => ret = Unit - 2
        /\ args.x = Scale => ret = Unit - 2
        /\ args.x = 45 * Scale + 3 * (Scale \div 10) => ret = 45 * Unit - 2

\* a value halfway between two whole units: psych_price(2.50) = 1.99
C17_Witness ==
    /\ pc = "rounded"
    /\ args.x = 2 * Scale + Scale \div 2
    /\ ret = 2 * Unit - 2
====
